---------------------------- MODULE Spec2Model ----------------------------
(***************************************************************************)
(* Model of the book catalog service of src/app.py: the loader             *)
(* load_books_data (with its Git LFS pointer fallback), the module-level   *)
(* catalog `books`, and the handlers /health, /search and /all.                *)
(*                                                                         *)
(* Texts are sequences of one-character strings, so that str.lower() and   *)
(* the substring test `in` are computed, not assumed.  A line of the data  *)
(* file is what json.loads makes of it: either no JSON at all, or a JSON   *)
(* document of which the top-level type and, for an array, the elements    *)
(* are kept.                                                               *)
(***************************************************************************)
EXTENDS Integers, Sequences, FiniteSets

VARIABLES
    books,          \* the module-level catalog list (app.py:379)
    file,           \* the data file at DATA_FILE: [exists, content]
    remote,         \* what LFS_URL answers during the running call
    lpc,            \* position of the thread running load_books_data
    depth,          \* number of active frames of load_books_data
    fetches,        \* requests.get calls made by the running top-level call
    loaded_books,   \* the local staging list (app.py:324)
    line_count,     \* local counter (app.py:327)
    error_count,    \* local counter (app.py:328)
    result,         \* value returned by the call: "none", "true", "false"
    books0,         \* the catalog when the top-level call was made
    file0,          \* the data file when the top-level call was made
    resp            \* the response of the request being served

vars == <<books, file, remote, lpc, depth, fetches, loaded_books,
          line_count, error_count, result, books0, file0, resp>>

loaderVars == <<lpc, depth, fetches, loaded_books, line_count, error_count,
                result, books0, file0, remote>>

---------------------------------------------------------------------------
(* Bounds of the model *)

MaxLines == 2
MaxCriteria == 2
MaxPageLines == 3
RecursionLimit == 3

---------------------------------------------------------------------------
(* Texts and JSON values *)

BoundedSeq(S, n) == UNION {[1..k -> S] : k \in 0..n}

MaxOf(S) == CHOOSE x \in S : \A y \in S : y <= x

\* A JSON scalar as json.loads returns it: a str, an int or None.
JStr(s) == [t |-> "str", s |-> s]
JInt(s) == [t |-> "int", s |-> s]
JNull == [t |-> "null", s |-> <<>>]

\* An element of a top-level array: a scalar, or an object (a dict, kept as
\* its key/value pairs in document order).
ScalarElem(v) == [t |-> v.t, s |-> v.s, obj |-> <<>>]
ObjectElem(pairs) == [t |-> "object", s |-> <<>>, obj |-> pairs]

\* A line of the file.  json = FALSE: json.loads raises JSONDecodeError;
\* lfs says whether the text starts with 'version https://git-lfs'.
TextLine(lfs) == [json |-> FALSE, lfs |-> lfs, top |-> "none", items |-> <<>>]
JsonLine(top, items) == [json |-> TRUE, lfs |-> FALSE, top |-> top, items |-> items]

BookDataA ==
    << <<"name", JStr(<<"A", "b">>)>>,
       <<"pages", JInt(<<"5">>)>>,
       <<"title", JStr(<<"x">>)>> >>

BookDataB ==
    << <<"name", JStr(<<"b">>)>>,
       <<"isbn", JNull>> >>

IdElem == ScalarElem(JStr(<<"i", "d">>))

GoodA == JsonLine("array", <<IdElem, ObjectElem(BookDataA)>>)
GoodB == JsonLine("array", <<IdElem, ObjectElem(BookDataB), IdElem>>)
Garbage == TextLine(FALSE)
LfsLine == TextLine(TRUE)
NonArray == JsonLine("object", <<>>)
ShortArray == JsonLine("array", <<IdElem>>)
NonMapping == JsonLine("array", <<IdElem, ScalarElem(JInt(<<"5">>))>>)

Lines == {GoodA, GoodB, Garbage, LfsLine, NonArray, ShortArray, NonMapping}

Contents == BoundedSeq(Lines, MaxLines)

MissingFile == [exists |-> FALSE, content |-> <<>>]

FileStates == {MissingFile} \cup {[exists |-> TRUE, content |-> c] : c \in Contents}

\* What the remote answers to a fetch: an HTTP error (raise_for_status()
\* raises), or a body.  No call running: RemoteError.
RemoteError == [ok |-> FALSE, body |-> <<>>]

RemoteBodies ==
    { <<LfsLine>>, <<GoodA>>, <<GoodB, GoodA>>, <<Garbage>>, <<GoodA, NonMapping>> }

Remotes == {RemoteError} \cup {[ok |-> TRUE, body |-> b] : b \in RemoteBodies}

---------------------------------------------------------------------------
(* load_books_data *)

Fields ==
    {"name", "author", "language", "genre", "publisher",
     "release_date", "media_type", "pages", "isbn"}

EmptyStr == JStr(<<>>)

\* dict.get(key, default)
DictGet(obj, key, default) ==
    LET idx == {i \in 1..Len(obj) : obj[i][1] = key}
    IN  IF idx = {} THEN default ELSE obj[MaxOf(idx)][2]

\* Faulty variant of BookOf: .get(key) without the '' default.
BookOfMissingNone(book_data) == [f \in Fields |-> DictGet(book_data, f, JNull)]

\* The dict literal of app.py:339-349.
BookOf(book_data) == [f \in Fields |-> DictGet(book_data, f, EmptyStr)]

\* Faulty variant of IsLfsPointer: the marker is looked for anywhere.
IsLfsPointerAnywhere(content) ==
    \E i \in 1..Len(content) : ~content[i].json /\ content[i].lfs

\* content.strip().startswith('version https://git-lfs')
IsLfsPointer(content) ==
    /\ Len(content) > 0
    /\ ~content[1].json
    /\ content[1].lfs

ParseStart ==
    [loaded_books |-> <<>>, line_count |-> 0, error_count |-> 0, aborted |-> FALSE]

\* One iteration of the for loop of app.py:329-354.
ParseLine(st, line) ==
    LET n == st.line_count + 1
    IN  IF ~line.json
        THEN [st EXCEPT !.line_count = n, !.error_count = @ + 1]
        ELSE IF line.top # "array" \/ Len(line.items) < 2
        THEN [st EXCEPT !.line_count = n, !.error_count = @ + 1]
        ELSE IF line.items[2].t # "object"
        THEN [st EXCEPT !.line_count = n, !.aborted = TRUE]
        ELSE [st EXCEPT !.line_count = n,
                        !.loaded_books = Append(@, BookOf(line.items[2].obj))]

RECURSIVE ParseFrom(_, _, _)
ParseFrom(content, i, st) ==
    IF i > Len(content) \/ st.aborted
    THEN st
    ELSE ParseFrom(content, i + 1, ParseLine(st, content[i]))

ParseLines(content) == ParseFrom(content, 1, ParseStart)

NoResp == [op |-> "none", params |-> <<>>, status |-> 0, error |-> "",
           field |-> "", books |-> <<>>, total |-> 0]

Init ==
    /\ books = <<>>
    /\ file \in FileStates
    /\ remote = RemoteError
    /\ lpc = "idle"
    /\ depth = 0
    /\ fetches = 0
    /\ loaded_books = <<>>
    /\ line_count = 0
    /\ error_count = 0
    /\ result = "none"
    /\ books0 = <<>>
    /\ file0 = MissingFile
    /\ resp = NoResp

\* The test harness writes or removes the data file between calls.
SetDataFile ==
    /\ lpc = "idle"
    /\ resp = NoResp
    /\ \E f \in FileStates : file' = f
    /\ UNCHANGED <<books, resp, loaderVars>>

\* A top-level call of load_books_data().
LoadCall ==
    /\ lpc = "idle"
    /\ resp = NoResp
    /\ \E r \in Remotes : remote' = r
    /\ lpc' = "enter"
    /\ depth' = 1
    /\ fetches' = 0
    /\ books0' = books
    /\ file0' = file
    /\ result' = "none"
    /\ UNCHANGED <<books, file, resp, loaded_books, line_count, error_count>>

\* Faulty variant of LoadEnter: the catalog is not emptied on entry.
LoadEnterKeepsCatalog ==
    /\ lpc = "enter"
    /\ resp = NoResp
    /\ lpc' = "check"
    /\ UNCHANGED <<books, file, resp, remote, depth, fetches, loaded_books,
                   line_count, error_count, result, books0, file0>>

\* app.py:291-293: books = []
LoadEnter ==
    /\ lpc = "enter"
    /\ resp = NoResp
    /\ books' = <<>>
    /\ lpc' = "check"
    /\ UNCHANGED <<file, resp, remote, depth, fetches, loaded_books,
                   line_count, error_count, result, books0, file0>>

\* Faulty variant of LoadMissing: a missing file is downloaded first.
LoadMissingDownloads ==
    /\ lpc = "check"
    /\ resp = NoResp
    /\ ~file.exists
    /\ fetches' = fetches + 1
    /\ IF remote.ok
       THEN /\ file' = [exists |-> TRUE, content |-> remote.body]
            /\ UNCHANGED <<lpc, result>>
       ELSE /\ result' = "false"
            /\ lpc' = "done"
            /\ UNCHANGED file
    /\ UNCHANGED <<books, resp, remote, depth, loaded_books,
                   line_count, error_count, books0, file0>>

\* app.py:297-300: the file does not exist.
LoadMissing ==
    /\ lpc = "check"
    /\ resp = NoResp
    /\ ~file.exists
    /\ result' = "false"
    /\ lpc' = "done"
    /\ UNCHANGED <<books, file, resp, remote, depth, fetches, loaded_books,
                   line_count, error_count, books0, file0>>

\* app.py:302-320: the file is an LFS pointer: download, then call again.
LoadPointer ==
    /\ lpc = "check"
    /\ resp = NoResp
    /\ file.exists
    /\ IsLfsPointer(file.content)
    /\ fetches' = fetches + 1
    /\ IF ~remote.ok
       THEN \* raise_for_status() raises, caught at line 318
            /\ result' = "false"
            /\ lpc' = "done"
            /\ UNCHANGED <<file, depth>>
       ELSE /\ file' = [exists |-> TRUE, content |-> remote.body]
            /\ IF depth < RecursionLimit
               THEN /\ depth' = depth + 1
                    /\ lpc' = "enter"
                    /\ UNCHANGED result
               ELSE \* RecursionError, caught at line 318
                    /\ result' = "false"
                    /\ lpc' = "done"
                    /\ UNCHANGED depth
    /\ UNCHANGED <<books, resp, remote, loaded_books, line_count, error_count,
                   books0, file0>>

\* app.py:322-357 and the else branch 371-376: parse into the local list.
LoadParse ==
    /\ lpc = "check"
    /\ resp = NoResp
    /\ file.exists
    /\ ~IsLfsPointer(file.content)
    /\ LET p == ParseLines(file.content)
       IN  /\ line_count' = p.line_count
           /\ error_count' = p.error_count
           /\ loaded_books' = p.loaded_books
           /\ IF p.aborted \/ p.loaded_books = <<>>
              THEN result' = "false" /\ lpc' = "done"
              ELSE lpc' = "clear" /\ UNCHANGED result
    /\ UNCHANGED <<books, file, resp, remote, depth, fetches, books0, file0>>

\* app.py:362: books.clear()
LoadClear ==
    /\ lpc = "clear"
    /\ resp = NoResp
    /\ books' = <<>>
    /\ lpc' = "extend"
    /\ UNCHANGED <<file, resp, remote, depth, fetches, loaded_books,
                   line_count, error_count, result, books0, file0>>

\* app.py:363-370: books.extend(loaded_books), then the double check.
LoadExtend ==
    /\ lpc = "extend"
    /\ resp = NoResp
    /\ books' = books \o loaded_books
    /\ result' = IF books' = <<>> THEN "false" ELSE "true"
    /\ lpc' = "done"
    /\ UNCHANGED <<file, resp, remote, depth, fetches, loaded_books,
                   line_count, error_count, books0, file0>>

\* A frame returns: to the frame that called it at line 317, or to the caller.
LoadReturn ==
    /\ lpc = "done"
    /\ resp = NoResp
    /\ IF depth > 1
       THEN /\ depth' = depth - 1
            /\ UNCHANGED <<lpc, remote, fetches, loaded_books, line_count,
                           error_count, result, books0, file0>>
       ELSE /\ lpc' = "idle"
            /\ depth' = 0
            /\ remote' = RemoteError
            /\ fetches' = 0
            /\ loaded_books' = <<>>
            /\ line_count' = 0
            /\ error_count' = 0
            /\ result' = "none"
            /\ books0' = <<>>
            /\ file0' = MissingFile
    /\ UNCHANGED <<books, file, resp>>

\* app.py:383-390
Health ==
    /\ resp = NoResp
    /\ resp' = [NoResp EXCEPT !.op = "health", !.status = 200, !.total = Len(books)]
    /\ UNCHANGED <<books, file, loaderVars>>

---------------------------------------------------------------------------
(* /search *)

\* str.lower() on the characters the model uses
PyLowerChar(c) ==
    CASE c = "A" -> "a"
      [] c = "B" -> "b"
      [] c = "N" -> "n"
      [] OTHER -> c

PyLower(s) == [i \in 1..Len(s) |-> PyLowerChar(s[i])]

\* str(v) of a value stored in a record
PyStr(v) ==
    CASE v.t = "null" -> <<"N", "o", "n", "e">>
      [] OTHER -> v.s

\* needle in hay, for two str
PyIn(needle, hay) ==
    \E k \in 0..(Len(hay) - Len(needle)) :
        SubSeq(hay, k + 1, k + Len(needle)) = needle

\* Faulty variant of FilterBy: the comparison is case-sensitive.
FilterByCaseSensitive(filtered_books, field, value) ==
    LET Keep(book) == PyIn(value, PyStr(book[field]))
    IN  SelectSeq(filtered_books, Keep)

\* The list comprehension of app.py:456-459.
FilterBy(filtered_books, field, value) ==
    LET Keep(book) == PyIn(PyLower(value), PyLower(PyStr(book[field])))
    IN  SelectSeq(filtered_books, Keep)

SearchError(query_params, status, error, field) ==
    [op |-> "search", params |-> query_params, status |-> status,
     error |-> error, field |-> field, books |-> <<>>, total |-> 0]

\* Faulty variant of SearchFrom: an unknown field is skipped, not rejected.
RECURSIVE SearchFromSkipUnknown(_, _, _, _)
SearchFromSkipUnknown(catalog, query_params, i, filtered_books) ==
    IF i > Len(query_params)
    THEN [op |-> "search", params |-> query_params, status |-> 200,
          error |-> "", field |-> "", books |-> filtered_books,
          total |-> Len(filtered_books)]
    ELSE IF query_params[i][1] \notin DOMAIN catalog[1]
    THEN SearchFromSkipUnknown(catalog, query_params, i + 1, filtered_books)
    ELSE SearchFromSkipUnknown(catalog, query_params, i + 1,
             FilterBy(filtered_books, query_params[i][1], query_params[i][2]))

\* Faulty variant of SearchFrom: each criterion filters the whole catalog,
\* so only the last one counts.
RECURSIVE SearchFromLastWins(_, _, _, _)
SearchFromLastWins(catalog, query_params, i, filtered_books) ==
    IF i > Len(query_params)
    THEN [op |-> "search", params |-> query_params, status |-> 200,
          error |-> "", field |-> "", books |-> filtered_books,
          total |-> Len(filtered_books)]
    ELSE IF query_params[i][1] \notin DOMAIN catalog[1]
    THEN SearchError(query_params, 400, "Invalid field", query_params[i][1])
    ELSE SearchFromLastWins(catalog, query_params, i + 1,
             FilterBy(catalog, query_params[i][1], query_params[i][2]))

\* The for loop of app.py:450-460 from its i-th item on, and the return of
\* app.py:467-470.
RECURSIVE SearchFrom(_, _, _, _)
SearchFrom(catalog, query_params, i, filtered_books) ==
    IF i > Len(query_params)
    THEN [op |-> "search", params |-> query_params, status |-> 200,
          error |-> "", field |-> "", books |-> filtered_books,
          total |-> Len(filtered_books)]
    ELSE IF query_params[i][1] \notin DOMAIN catalog[1]
    THEN SearchError(query_params, 400, "Invalid field", query_params[i][1])
    ELSE SearchFrom(catalog, query_params, i + 1,
             FilterBy(filtered_books, query_params[i][1], query_params[i][2]))

\* Faulty variant of SearchResponse: the no-data check is made first.
SearchResponseNoDataFirst(catalog, query_params) ==
    IF catalog = <<>>
    THEN SearchError(query_params, 500, "No books available", "")
    ELSE IF query_params = <<>>
    THEN SearchError(query_params, 400, "No search parameters provided", "")
    ELSE SearchFrom(catalog, query_params, 1, catalog)

\* The body of search_books, app.py:435-473.
SearchResponse(catalog, query_params) ==
    IF query_params = <<>>
    THEN SearchError(query_params, 400, "No search parameters provided", "")
    ELSE IF catalog = <<>>
    THEN SearchError(query_params, 500, "No books available", "")
    ELSE SearchFrom(catalog, query_params, 1, catalog)

QueryKeys == {"name", "pages", "title", "invalid_field"}
QueryValues == {<<>>, <<"a">>, <<"B">>}

\* request.args.to_dict(): an ordered mapping, one value per key.
Criteria ==
    {c \in BoundedSeq(QueryKeys \X QueryValues, MaxCriteria) :
        \A i, j \in 1..Len(c) : i # j => c[i][1] # c[j][1]}

Search ==
    /\ resp = NoResp
    /\ \E query_params \in Criteria : resp' = SearchResponse(books, query_params)
    /\ UNCHANGED <<books, file, loaderVars>>

---------------------------------------------------------------------------
(* /all *)

\* The default of limit, app.py:398 and 407.
DefaultLimit == 100

PyMin(a, b) == IF a < b THEN a ELSE b

\* catalog[start_idx:end_idx] for 0 <= start_idx
PySlice(catalog, start_idx, end_idx) ==
    [i \in 1..(PyMin(end_idx, Len(catalog)) - start_idx) |-> catalog[start_idx + i]]

ListError(page, limit, status, error) ==
    [op |-> "all", req_page |-> page, req_limit |-> limit, status |-> status,
     error |-> error, books |-> <<>>, total |-> 0, page |-> 0, limit |-> 0,
     total_pages |-> 0]

\* app.py:416-429 for the coerced limit and the clamped page.
ListSlice(catalog, req_page, req_limit, page, limit) ==
    LET start_idx == (page - 1) * limit
        end_idx == PyMin(start_idx + limit, Len(catalog))
    IN  [op |-> "all", req_page |-> req_page, req_limit |-> req_limit,
         status |-> 200, error |-> "",
         books |-> PySlice(catalog, start_idx, end_idx),
         total |-> Len(catalog), page |-> page, limit |-> limit,
         total_pages |-> (Len(catalog) + limit - 1) \div limit]

\* Faulty variant of ListClamp: the number of pages is rounded down.
ListClampFloor(catalog, req_page, req_limit, limit) ==
    LET total_pages == Len(catalog) \div limit
        page == IF req_page < 1 THEN 1
                ELSE IF req_page > total_pages THEN total_pages
                ELSE req_page
    IN  [ListSlice(catalog, req_page, req_limit, IF page < 1 THEN 1 ELSE page, limit)
            EXCEPT !.total_pages = total_pages]

\* Faulty variant of ListClamp: a page above the last one is not clamped
\* (as in src/api.py:186-202).
ListClampNoUpper(catalog, req_page, req_limit, limit) ==
    LET page == IF req_page < 1 THEN 1 ELSE req_page
        start_idx == (page - 1) * limit
    IN  IF start_idx >= Len(catalog)
        THEN [ListSlice(catalog, req_page, req_limit, 1, limit)
                 EXCEPT !.books = <<>>, !.page = page]
        ELSE ListSlice(catalog, req_page, req_limit, page, limit)

\* Faulty variant of ListClamp: the slice starts one page too far.
ListClampShifted(catalog, req_page, req_limit, limit) ==
    LET total_pages == (Len(catalog) + limit - 1) \div limit
        page == IF req_page < 1 THEN 1
                ELSE IF req_page > total_pages THEN total_pages
                ELSE req_page
        start_idx == PyMin(page * limit, Len(catalog))
    IN  [ListSlice(catalog, req_page, req_limit, page, limit)
            EXCEPT !.books = PySlice(catalog, start_idx, start_idx + limit)]

\* app.py:409-414: the page is clamped to 1..total_pages.
ListClamp(catalog, req_page, req_limit, limit) ==
    LET total_pages == (Len(catalog) + limit - 1) \div limit
        page == IF req_page < 1 THEN 1
                ELSE IF req_page > total_pages THEN total_pages
                ELSE req_page
    IN  ListSlice(catalog, req_page, req_limit, page, limit)

\* Faulty variant of ListResponse: no test of an empty catalog (as in
\* src/api.py:186-202); the slice of an empty list is empty.
ListResponseNoDataCheck(catalog, page, limit) ==
    IF catalog = <<>>
    THEN [ListError(page, limit, 200, "") EXCEPT
             !.limit = IF limit < 1 THEN DefaultLimit ELSE limit]
    ELSE ListClamp(catalog, page, limit, IF limit < 1 THEN DefaultLimit ELSE limit)

\* The body of get_all_books, app.py:397-429.
ListResponse(catalog, page, limit) ==
    IF catalog = <<>>
    THEN ListError(page, limit, 500, "No books available")
    ELSE ListClamp(catalog, page, limit, IF limit < 1 THEN DefaultLimit ELSE limit)

\* request.args.get(..., type=int)
PageArgs == (0 - 1)..(MaxPageLines + 2)
LimitArgs == ((0 - 1)..MaxPageLines) \cup {DefaultLimit}

ListPage ==
    /\ resp = NoResp
    /\ \E page \in PageArgs, limit \in LimitArgs :
          resp' = ListResponse(books, page, limit)
    /\ UNCHANGED <<books, file, loaderVars>>

\* The response leaves the handler.
Reply ==
    /\ resp # NoResp
    /\ resp' = NoResp
    /\ UNCHANGED <<books, file, loaderVars>>

Next ==
    \/ SetDataFile
    \/ LoadCall
    \/ LoadEnter
    \/ LoadMissing
    \/ LoadPointer
    \/ LoadParse
    \/ LoadClear
    \/ LoadExtend
    \/ LoadReturn
    \/ Health
    \/ Reply

Spec == Init /\ [][Next]_vars

---------------------------------------------------------------------------
(* The service once its startup load (app.py:378-381) has returned, for a  *)
(* data file that needs no download; requests are then served.             *)

StartupCatalog(f) ==
    IF ~f.exists
    THEN <<>>
    ELSE LET p == ParseLines(f.content)
         IN  IF p.aborted THEN <<>> ELSE p.loaded_books

InitQuery ==
    /\ file \in {f \in FileStates : ~(f.exists /\ IsLfsPointer(f.content))}
    /\ books = StartupCatalog(file)
    /\ remote = RemoteError
    /\ lpc = "idle"
    /\ depth = 0
    /\ fetches = 0
    /\ loaded_books = <<>>
    /\ line_count = 0
    /\ error_count = 0
    /\ result = "none"
    /\ books0 = <<>>
    /\ file0 = MissingFile
    /\ resp = NoResp

NextQuery ==
    \/ Search
    \/ ListPage
    \/ Health
    \/ Reply

SpecQuery == InitQuery /\ [][NextQuery]_vars

\* The same service started on a longer data file of fewer kinds of lines,
\* so that a catalog fills more than one page.
PageLines == {GoodA, GoodB, Garbage}

PageFileStates ==
    {[exists |-> TRUE, content |-> c] : c \in BoundedSeq(PageLines, MaxPageLines)}

InitPage ==
    /\ file \in PageFileStates
    /\ books = StartupCatalog(file)
    /\ remote = RemoteError
    /\ lpc = "idle"
    /\ depth = 0
    /\ fetches = 0
    /\ loaded_books = <<>>
    /\ line_count = 0
    /\ error_count = 0
    /\ result = "none"
    /\ books0 = <<>>
    /\ file0 = MissingFile
    /\ resp = NoResp

SpecPage == InitPage /\ [][NextQuery]_vars

---------------------------------------------------------------------------
(* Properties *)

\* A line decodes: a JSON array of at least two elements whose element 1 is
\* a mapping.
Decodes(line) ==
    /\ line.json
    /\ line.top = "array"
    /\ Len(line.items) >= 2
    /\ line.items[2].t = "object"

\* The nine-field projection of a mapping: a missing key gives '', extra
\* keys are dropped.
Projection(obj) ==
    [f \in Fields |->
        IF \E i \in 1..Len(obj) : obj[i][1] = f
        THEN obj[CHOOSE i \in 1..Len(obj) : obj[i][1] = f][2]
        ELSE [t |-> "str", s |-> <<>>]]

\* The records of the lines of a file that decode, in file order.
ExpectedCatalog(content) ==
    LET good == SelectSeq(content, Decodes)
    IN  [i \in 1..Len(good) |-> Projection(good[i].items[2].obj)]

\* The file content is a placeholder: it starts with the LFS marker.
Placeholder(content) ==
    content # <<>> /\ ~Head(content).json /\ Head(content).lfs

BadLines(content) == {i \in 1..Len(content) : ~Decodes(content[i])}

\* The running call was made on an existing file holding real content.
CalledOnRealFile == file0.exists /\ ~Placeholder(file0.content)

\* C1: a load() of a file from which no line decodes returns failure and
\* leaves the catalog exactly as it was when the call was made.
C1_FailedLoadKeepsCatalog ==
    (/\ lpc = "done"
     /\ CalledOnRealFile
     /\ BadLines(file0.content) = 1..Len(file0.content))
    => (result = "false" /\ books = books0)

\* C2: a /health served while load() replaces a non-empty catalog by a
\* non-empty one reports the size of the old or of the new catalog, never
\* that of an empty or partial one.
C2_ReaderSeesOldOrNew ==
    (/\ resp.op = "health"
     /\ lpc # "idle"
     /\ books0 # <<>>
     /\ CalledOnRealFile
     /\ BadLines(file0.content) = {})
    => resp.total \in {Len(books0), Len(ExpectedCatalog(file0.content))}

\* C3: when the local file is a placeholder and the remote answers every
\* fetch with a placeholder, one call of load() makes at most one fetch,
\* and returns failure.
C3_AtMostOneFetch ==
    (/\ lpc # "idle"
     /\ file0.exists
     /\ Placeholder(file0.content)
     /\ remote.ok
     /\ Placeholder(remote.body))
    => (fetches <= 1 /\ (lpc = "done" => result = "false"))

\* C4: a file of N >= 2 lines of which exactly one is bad, of any kind and
\* in any position, loads with success and gives the N-1 other records.
C4_OneBadLineTolerated ==
    (/\ lpc = "done"
     /\ CalledOnRealFile
     /\ Len(file0.content) >= 2
     /\ Cardinality(BadLines(file0.content)) = 1)
    => (/\ result = "true"
        /\ books = ExpectedCatalog(file0.content)
        /\ Len(books) = Len(file0.content) - 1)

\* C5: after a load() that returns success the catalog is the projection of
\* the decoded lines of the file, in file order; its length is lines read
\* minus lines errored, and nothing of the previous catalog is left.
C5_SuccessfulLoadCatalog ==
    (lpc = "done" /\ result = "true")
    => (/\ books = ExpectedCatalog(file.content)
        /\ line_count = Len(file.content)
        /\ Len(books) = line_count - error_count
        /\ error_count = Cardinality(BadLines(file.content)))

C5_Witness ==
    /\ lpc = "done"
    /\ result = "true"
    /\ books0 # <<>>
    /\ books # books0
    /\ error_count > 0
    /\ Len(books) = 1
    /\ "title" \notin DOMAIN books[1]
    /\ books[1].name = [t |-> "str", s |-> <<"A", "b">>]
    /\ books[1].author = [t |-> "str", s |-> <<>>]

\* The payload holds records: a line decodes, and no line is an array whose
\* element 1 is not a mapping.
RecordPayload(body) ==
    /\ ~Placeholder(body)
    /\ \E i \in 1..Len(body) : Decodes(body[i])
    /\ \A i \in 1..Len(body) :
          ~(body[i].json /\ body[i].top = "array" /\ Len(body[i].items) >= 2
            /\ body[i].items[2].t # "object")

C7_MissingFileIsFetched ==
    (lpc = "done" /\ ~file0.exists)
    => (fetches >= 1 /\ (result = "false" => ~remote.ok))

\* C7 as amended: on a missing file load() makes no fetch, returns failure
\* at once and leaves the path absent.
C7_MissingFileFailsWithoutFetch ==
    (lpc = "done" /\ ~file0.exists)
    => (fetches = 0 /\ result = "false" /\ ~file.exists /\ depth = 1)

C7_Witness ==
    /\ lpc = "done"
    /\ ~file0.exists
    /\ remote.ok
    /\ RecordPayload(remote.body)
    /\ result = "false"

UnknownKeys(c) == {i \in 1..Len(c) : c[i][1] \notin Fields}

FirstUnknownKey(c) ==
    c[CHOOSE i \in UnknownKeys(c) : \A j \in UnknownKeys(c) : i <= j][1]

InvalidFieldError(r) ==
    /\ r.status = 400
    /\ r.error = "Invalid field"
    /\ r.field = FirstUnknownKey(r.params)
    /\ r.books = <<>>

\* C8 as claimed: in every catalog state, loaded or empty, a search whose
\* criteria hold a key outside the vocabulary fails with 400 'Invalid
\* field: <key>' naming the first such key, and returns no books.
C8_InvalidFieldInEveryCatalog ==
    (resp.op = "search" /\ UnknownKeys(resp.params) # {})
    => InvalidFieldError(resp)

\* C8 as amended: with a non-empty catalog such a search fails with 400
\* 'Invalid field: <key>' naming the first unknown key; with an empty
\* catalog it fails with 500 'No books available'.
C8_InvalidFieldWhenLoaded ==
    (resp.op = "search" /\ UnknownKeys(resp.params) # {})
    => IF books # <<>>
       THEN InvalidFieldError(resp)
       ELSE /\ resp.status = 500
            /\ resp.error = "No books available"
            /\ resp.books = <<>>

C8_Witness ==
    /\ resp.op = "search"
    /\ books # <<>>
    /\ Len(resp.params) = 2
    /\ resp.params[1][1] = "name"
    /\ resp.params[1][2] = <<"a">>
    /\ resp.params[2][1] = "title"
    /\ resp.status = 400
    /\ resp.field = "title"

\* C9: a search with empty criteria fails with 400 'No search parameters
\* provided' in every catalog state, the empty catalog included.
C9_EmptyCriteria ==
    (resp.op = "search" /\ resp.params = <<>>)
    => (/\ resp.status = 400
        /\ resp.error = "No search parameters provided"
        /\ resp.books = <<>>)

C9_Witness ==
    /\ resp.op = "search"
    /\ resp.params = <<>>
    /\ books = <<>>
    /\ resp.status = 400

\* The text of a stored value, in lower case.
LowerText(v) ==
    LET text == IF v.t = "null" THEN <<"N", "o", "n", "e">> ELSE v.s
    IN  [i \in 1..Len(text) |->
            IF text[i] = "A" THEN "a"
            ELSE IF text[i] = "B" THEN "b"
            ELSE IF text[i] = "N" THEN "n"
            ELSE text[i]]

LowerQuery(q) == LowerText([t |-> "str", s |-> q])

Substring(x, y) ==
    \E a, b \in 0..Len(y) :
        /\ a + Len(x) + b = Len(y)
        /\ \A k \in 1..Len(x) : y[a + k] = x[k]

MatchesAll(r, c) ==
    \A i \in 1..Len(c) : Substring(LowerQuery(c[i][2]), LowerText(r[c[i][1]]))

\* C10: on a non-empty catalog, criteria with valid keys return exactly the
\* records in which every criterion's value, in lower case, is a substring
\* of the field in lower case, in catalog order, with total their number;
\* an empty value matches every record.
C10_SearchResult ==
    (/\ resp.op = "search"
     /\ books # <<>>
     /\ resp.params # <<>>
     /\ UnknownKeys(resp.params) = {})
    => (/\ resp.status = 200
        /\ LET Match(r) == MatchesAll(r, resp.params)
           IN  resp.books = SelectSeq(books, Match)
        /\ resp.total = Len(resp.books)
        /\ (\A i \in 1..Len(resp.params) : resp.params[i][2] = <<>>)
              => resp.books = books)

C10_Witness ==
    /\ resp.op = "search"
    /\ Len(books) = 2
    /\ resp.params = << <<"name", <<"B">> >>, <<"pages", <<>> >> >>
    /\ resp.status = 200
    /\ resp.total = 2
    /\ resp.books[1].name.s = <<"A", "b">>
    /\ resp.books[2].pages.s = <<>>

\* The orders in which the pairs of a criteria mapping can be given.
Orders(c) ==
    {q \in [1..Len(c) -> {c[i] : i \in 1..Len(c)}] :
        \A i \in 1..Len(c) : \E j \in 1..Len(c) : q[j] = c[i]}

\* C11: on a non-empty catalog, criteria with valid keys give the same
\* records in the same order, and the same total, in whatever order the
\* criteria are applied.
C11_OrderIndependent ==
    (/\ resp.op = "search"
     /\ books # <<>>
     /\ resp.params # <<>>
     /\ UnknownKeys(resp.params) = {})
    => \A q \in Orders(resp.params) :
          LET r == SearchResponse(books, q)
          IN  /\ r.status = 200
              /\ r.books = resp.books
              /\ r.total = resp.total

C11_Witness ==
    /\ resp.op = "search"
    /\ Len(books) = 2
    /\ resp.params = << <<"pages", <<>> >>, <<"name", <<"a">> >> >>
    /\ resp.status = 200
    /\ resp.total = 1
    /\ SearchResponse(books, << <<"name", <<"a">> >>, <<"pages", <<>> >> >>).total = 1

\* ceil(total / L) for L >= 1
Ceil(total, L) == CHOOSE n \in 0..total : n * L >= total /\ (n - 1) * L < total

EffectiveLimit(limit) == IF limit >= 1 THEN limit ELSE 100

\* C12: on a non-empty catalog, for every page and limit, /all reports
\* limit = L (the limit if it is at least 1, else 100) and total_pages =
\* ceil(total / L) >= 1, and returns at most L records.
C12_LimitAndPages ==
    (resp.op = "all" /\ books # <<>>)
    => LET L == EffectiveLimit(resp.req_limit)
       IN  /\ resp.status = 200
           /\ resp.limit = L
           /\ resp.total = Len(books)
           /\ resp.total_pages = Ceil(Len(books), L)
           /\ resp.total_pages >= 1
           /\ Len(resp.books) <= L

C12_Witness ==
    /\ resp.op = "all"
    /\ Len(books) = 3
    /\ resp.req_limit = 2
    /\ resp.limit = 2
    /\ resp.total_pages = 2
    /\ Len(resp.books) = 2

C12_WitnessDefault ==
    /\ resp.op = "all"
    /\ Len(books) = 3
    /\ resp.req_limit = 0
    /\ resp.limit = 100
    /\ resp.total_pages = 1

\* C13: on a non-empty catalog the page reported by /all is
\* min(max(page, 1), total_pages), and the returned page is never empty.
C13_PageClamped ==
    (resp.op = "all" /\ books # <<>>)
    => LET tp == Ceil(Len(books), EffectiveLimit(resp.req_limit))
           lo == IF resp.req_page < 1 THEN 1 ELSE resp.req_page
       IN  /\ resp.page = (IF lo > tp THEN tp ELSE lo)
           /\ resp.page \in 1..tp
           /\ (resp.req_page \in 1..tp => resp.page = resp.req_page)
           /\ resp.books # <<>>

C13_Witness ==
    /\ resp.op = "all"
    /\ Len(books) = 3
    /\ resp.req_limit = 2
    /\ resp.req_page = 5
    /\ resp.page = 2
    /\ Len(resp.books) = 1

\* The catalog indexes (from 1) of page p for limit L.
PageIndexes(total, p, L) ==
    {k \in 1..total : (p - 1) * L < k /\ k <= p * L}

\* C14: on a non-empty catalog the records of /all are the catalog slice
\* from start = (page - 1) * limit up to, excluding, end = min(start +
\* limit, total), in catalog order; for a fixed limit the pages
\* 1..total_pages are disjoint and together are the whole catalog.
C14_Slice ==
    (resp.op = "all" /\ books # <<>>)
    => LET L == resp.limit
           total == Len(books)
           start == (resp.page - 1) * L
           end == IF start + L < total THEN start + L ELSE total
           Page(p) == ListResponse(books, p, resp.req_limit)
       IN  /\ Len(resp.books) = end - start
           /\ \A i \in 1..(end - start) : resp.books[i] = books[start + i]
           /\ \A k \in 1..total :
                 \E p \in 1..resp.total_pages :
                    /\ k \in PageIndexes(total, p, L)
                    /\ Len(Page(p).books) = Cardinality(PageIndexes(total, p, L))
                    /\ Page(p).books[k - (p - 1) * L] = books[k]
                    /\ \A o \in 1..resp.total_pages :
                          k \in PageIndexes(total, o, L) => o = p

C14_Witness ==
    /\ resp.op = "all"
    /\ Len(books) = 3
    /\ books[3] # books[1]
    /\ resp.req_limit = 2
    /\ resp.req_page = 2
    /\ resp.total_pages = 2
    /\ resp.books = <<books[3]>>

NoDataError(r) ==
    /\ r.status = 500
    /\ r.error = "No books available"
    /\ r.books = <<>>

\* C15: on an empty catalog every /all, for any page and limit, and every
\* search with non-empty criteria of valid keys, answers 500 'No books
\* available', and fails in no other way.
C15_NoData ==
    books = <<>>
    => /\ resp.op = "all" => NoDataError(resp)
       /\ (/\ resp.op = "search"
           /\ resp.params # <<>>
           /\ UnknownKeys(resp.params) = {})
          => NoDataError(resp)

C15_Witness ==
    /\ books = <<>>
    /\ resp.op = "all"
    /\ resp.req_limit = 0
    /\ resp.req_page = 0
    /\ resp.status = 500

C15_WitnessSearch ==
    /\ books = <<>>
    /\ resp.op = "search"
    /\ resp.params = << <<"name", <<"a">> >> >>
    /\ resp.status = 500

\* C16: in every catalog state every record has exactly the nine fields and
\* every field value is text.
C16_RecordsAreText ==
    \A i \in 1..Len(books) :
        /\ DOMAIN books[i] = Fields
        /\ \A f \in Fields : books[i][f].t = "str"

=============================================================================
